---------------------------- MODULE Spec2Model ----------------------------
(***************************************************************************)
(* GeoRound.py: the six-decimal coordinate formatter (format_coord), the   *)
(* WKT geometry normalizer (process_wkt and its helpers), the repeated     *)
(* application wrapper (apply_n_times) and steps 2 and 3 of the file       *)
(* processing pipeline.                                                    *)
(*                                                                         *)
(* Text is a sequence of one-character strings.  A Python float is kept as *)
(* the shortest decimal that reads back to it: [neg, digits, decpt] means  *)
(* (-1)^neg * 0.d1d2...dn * 10^decpt, digits without leading or trailing   *)
(* zeros, zero being the empty digit sequence.  For the magnitudes of the  *)
(* model (at most 15 significant digits) this decimal determines the       *)
(* double and is what repr() prints.                                       *)
(***************************************************************************)
EXTENDS Integers, Sequences, FiniteSets, TLC

----------------------------------------------------------------------------
(* Characters and digit sequences *)

DigitChars == <<"0", "1", "2", "3", "4", "5", "6", "7", "8", "9">>

IsDigit(c) == \E i \in 1..10 : DigitChars[i] = c

DigitVal(c) == (CHOOSE i \in 1..10 : DigitChars[i] = c) - 1

DigitChar(d) == DigitChars[d + 1]

AllDigits(t) == \A i \in 1..Len(t) : IsDigit(t[i])

ToVals(t) == [i \in 1..Len(t) |-> DigitVal(t[i])]

ToChars(ds) == [i \in 1..Len(ds) |-> DigitChar(ds[i])]

Zeros(n) == [i \in 1..n |-> 0]

Rep(c, n) == [i \in 1..n |-> c]

RECURSIVE Power(_, _)
Power(b, n) == IF n <= 0 THEN 1 ELSE b * Power(b, n - 1)

RECURSIVE ValOf(_)
ValOf(ds) == IF ds = <<>> THEN 0 ELSE 10 * ValOf(SubSeq(ds, 1, Len(ds) - 1)) + ds[Len(ds)]

RECURSIVE NatDigits(_)
NatDigits(n) == IF n < 10 THEN <<n>> ELSE Append(NatDigits(n \div 10), n % 10)

RECURSIVE StripLeading(_)
StripLeading(ds) ==
    IF ds # <<>> /\ ds[1] = 0 THEN StripLeading(Tail(ds)) ELSE ds

RECURSIVE StripTrailing(_)
StripTrailing(ds) ==
    IF ds # <<>> /\ ds[Len(ds)] = 0 THEN StripTrailing(SubSeq(ds, 1, Len(ds) - 1)) ELSE ds

LeadingZeros(ds) == Len(ds) - Len(StripLeading(ds))

IndexOf(t, c) == IF \E i \in 1..Len(t) : t[i] = c
                 THEN CHOOSE i \in 1..Len(t) : t[i] = c /\ \A j \in 1..(i - 1) : t[j] # c
                 ELSE 0

Count(t, c) == Cardinality({i \in 1..Len(t) : t[i] = c})

\* The element of a singleton set.  An operator whose argument is used many
\* times binds it through a singleton set, {F(v) : v \in {argument}}, so that
\* the argument is evaluated once.
Only(S) == CHOOSE y \in S : TRUE

----------------------------------------------------------------------------
(* Python floats *)

ZeroD == [neg |-> FALSE, digits |-> <<>>, decpt |-> 0]

\* float() of a literal too small for a double is (signed) zero, of one too
\* large (signed) infinity, kept as the empty digit sequence with decpt 1
MinDecpt == -323

MaxDecpt == 309

IsInf(x) == x.digits = <<>> /\ x.decpt = 1

MkDouble(neg, ds, pt) ==
    Only({IF core = <<>> \/ pt - lead < MinDecpt
          THEN [neg |-> neg, digits |-> <<>>, decpt |-> 0]
          ELSE IF pt - lead > MaxDecpt
          THEN [neg |-> neg, digits |-> <<>>, decpt |-> 1]
          ELSE [neg |-> neg, digits |-> core, decpt |-> pt - lead] :
          lead \in {LeadingZeros(ds)}, core \in {StripTrailing(StripLeading(ds))}})

\* the digits before / after the decimal point of a double
IntDigits(x) ==
    IF x.decpt <= 0 THEN <<>>
    ELSE IF x.decpt >= Len(x.digits) THEN x.digits \o Zeros(x.decpt - Len(x.digits))
    ELSE SubSeq(x.digits, 1, x.decpt)

FracDigits(x) ==
    IF x.digits = <<>> \/ x.decpt >= Len(x.digits) THEN <<>>
    ELSE IF x.decpt <= 0 THEN Zeros(-x.decpt) \o x.digits
    ELSE SubSeq(x.digits, x.decpt + 1, Len(x.digits))

\* float(s) accepts: [sign] digits [. digits] [e [sign] digits], with a digit in
\* the mantissa (the characters of the model hold no blank, underscore or letter
\* other than e)
SignLen(t) == IF t # <<>> /\ t[1] \in {"-", "+"} THEN 1 ELSE 0

Unsigned(t) == SubSeq(t, SignLen(t) + 1, Len(t))

MantissaText(t) ==
    LET b == Unsigned(t)
        e == IndexOf(b, "e")
    IN  IF e = 0 THEN b ELSE SubSeq(b, 1, e - 1)

ExponentText(t) ==
    LET b == Unsigned(t)
        e == IndexOf(b, "e")
    IN  IF e = 0 THEN <<>> ELSE SubSeq(b, e + 1, Len(b))

HasExponent(t) == IndexOf(Unsigned(t), "e") # 0

IsFloatLiteral(text) ==
    \A t \in {text} : \A m \in {MantissaText(t)} : \A xd \in {Unsigned(ExponentText(t))} :
        /\ Count(m, ".") <= 1
        /\ \A i \in 1..Len(m) : IsDigit(m[i]) \/ m[i] = "."
        /\ \E i \in 1..Len(m) : IsDigit(m[i])
        /\ HasExponent(t) => (xd # <<>> /\ AllDigits(xd))

ParseFloat(text) ==
    Only({LET dot  == IndexOf(m, ".")
              ip   == IF dot = 0 THEN m ELSE SubSeq(m, 1, dot - 1)
              fp   == IF dot = 0 THEN <<>> ELSE SubSeq(m, dot + 1, Len(m))
              xv   == IF x = <<>> THEN 0
                      ELSE IF x[1] = "-" THEN 0 - ValOf(ToVals(Unsigned(x)))
                      ELSE ValOf(ToVals(Unsigned(x)))
          IN  MkDouble(text[1] = "-", ToVals(ip) \o ToVals(fp), Len(ip) + xv) :
          m \in {MantissaText(text)}, x \in {ExponentText(text)}})

\* repr(x), which str(x) returns for a float: the shortest digits that read back,
\* in exponent notation when decpt <= -4 or decpt > 16
ReprMinDecpt == -4

ReprMaxDecpt == 16

SignText(x) == IF x.neg THEN <<"-">> ELSE <<>>

OrZero(ds) == IF ds = <<>> THEN <<0>> ELSE ds

ExpDigits(n) == IF n < 10 THEN <<0, n>> ELSE NatDigits(n)

InfText == <<"i", "n", "f">>

PyRepr(float) ==
    Only({IF IsInf(x) THEN SignText(x) \o InfText
          ELSE IF x.digits = <<>> THEN SignText(x) \o <<"0", ".", "0">>
          ELSE IF x.decpt > ReprMinDecpt /\ x.decpt <= ReprMaxDecpt
          THEN SignText(x) \o ToChars(OrZero(IntDigits(x))) \o <<".">>
               \o ToChars(OrZero(FracDigits(x)))
          ELSE LET ex == x.decpt - 1
               IN  SignText(x) \o ToChars(<<x.digits[1]>>)
                   \o (IF Len(x.digits) > 1 THEN <<".">> \o ToChars(Tail(x.digits)) ELSE <<>>)
                   \o <<"e", IF ex < 0 THEN "-" ELSE "+">>
                   \o ToChars(ExpDigits(IF ex < 0 THEN 0 - ex ELSE ex)) :
          x \in {float}})

\* str(n) of an integer
PyIntStr(x) == SignText(x) \o ToChars(OrZero(IntDigits(x)))

\* The side on which the double lies of the decimal x it was read from: 1 above,
\* -1 below, 0 when the decimal is itself a double.  With e = floor(log2 |x|)
\* the double is the integer nearest to |x| * 2^(52-e), ties to even, and the
\* integer part of |x| contributes no fraction to that product.
MantissaBits == 52

RECURSIVE Log2Floor(_)
Log2Floor(n) == IF n < 2 THEN 0 ELSE 1 + Log2Floor(n \div 2)

RECURSIVE NegLog2(_, _)
NegLog2(f, m) ==
    IF f >= m THEN 0
    ELSE IF 16 * f < m THEN 4 + NegLog2(16 * f, m)
    ELSE 1 + NegLog2(2 * f, m)

\* k doublings of r modulo m, with the last bit carried out (seven at a time
\* while seven remain: m is at most 10^7 where this is used)
RECURSIVE Doubled(_, _, _, _)
Doubled(r, bit, k, m) ==
    IF k <= 0 THEN <<r, bit>>
    ELSE IF k >= 7 THEN Doubled((128 * r) % m, ((128 * r) \div m) % 2, k - 7, m)
    ELSE Doubled((2 * r) % m, (2 * r) \div m, k - 1, m)

DirOf(f, ip, m) ==
    Only({IF f = 0 \/ rb[1] = 0 THEN 0
          ELSE IF 2 * rb[1] > m THEN 1
          ELSE IF 2 * rb[1] < m THEN -1
          ELSE IF rb[2] = 1 THEN 1 ELSE -1 :
          rb \in {Doubled(f, 0, MantissaBits
                               - (IF ip >= 1 THEN Log2Floor(ip) ELSE 0 - NegLog2(f, m)), m)}})

FloatDir(x) ==
    Only({DirOf(f, ip, m) :
          f \in {ValOf(FracDigits(x))}, ip \in {ValOf(IntDigits(x))},
          m \in {Power(10, Len(FracDigits(x)))}})

\* x correctly rounded to 6 decimal places (dtoa mode 3, as round(x, 6) and
\* "%.6f" both do): the nearest to the double's exact value, an exact tie to the
\* even neighbour.  [neg, ip, fp]: sign, integer digits, the 6 fraction digits.
Places == 6

RECURSIVE Incremented(_)
Incremented(ds) ==
    IF ds = <<>> THEN <<1>>
    ELSE IF ds[Len(ds)] < 9 THEN [ds EXCEPT ![Len(ds)] = @ + 1]
    ELSE Append(Incremented(SubSeq(ds, 1, Len(ds) - 1)), 0)

\* cutting the digits off instead of rounding
Truncates(x) == FALSE

RoundsUp(x) ==
    \E fr \in {FracDigits(x)} :
        \E g \in {IF Len(fr) > Places THEN fr[Places + 1] ELSE 0} :
            \/ g > 5
            \/ g = 5 /\ Len(fr) > Places + 1
            \/ g = 5 /\ Len(fr) = Places + 1
                 /\ \E d \in {FloatDir(x)} : d = 1 \/ (d = 0 /\ fr[Places] % 2 = 1)

Round6(float) ==
    Only({[neg |-> x.neg,
           ip  |-> StripLeading(SubSeq(r, 1, Len(r) - Places)),
           fp  |-> SubSeq(r, Len(r) - Places + 1, Len(r))] :
          x \in {float},
          r \in {LET whole == IntDigits(float)
                              \o SubSeq(FracDigits(float) \o Zeros(Places), 1, Places)
                 IN  IF RoundsUp(float) THEN Incremented(whole) ELSE whole}})

\* round(x, 6): the float read back from the rounded decimal
PyRound6(float) ==
    Only({IF IsInf(x) THEN x
          ELSE Only({MkDouble(r.neg, r.ip \o r.fp, Len(r.ip)) : r \in {Round6(x)}}) :
          x \in {float}})

\* f"{x:.6f}"
FormatF6(float) ==
    Only({IF IsInf(x) THEN SignText(x) \o InfText
          ELSE Only({SignText(x) \o ToChars(OrZero(r.ip)) \o <<".">> \o ToChars(r.fp) :
                     r \in {Round6(x)}}) :
          x \in {float}})

----------------------------------------------------------------------------
(* Python values: a str (its text), a float, an int, or a null (NaN / None) *)

StrV(text) == [t |-> "str", s |-> text, d |-> ZeroD]

FloatV(x) == [t |-> "float", s |-> <<>>, d |-> x]

IntV(x) == [t |-> "int", s |-> <<>>, d |-> x]

NullV == [t |-> "null", s |-> <<>>, d |-> ZeroD]

\* str(value)
PyStr(value) ==
    CASE value.t = "str"   -> value.s
      [] value.t = "float" -> PyRepr(value.d)
      [] value.t = "int"   -> PyIntStr(value.d)
      [] OTHER             -> <<"n", "a", "n">>

\* float(value): raises ValueError on a str that is no float literal
PyFloatOk(value) == value.t = "str" => IsFloatLiteral(value.s)

PyFloat(value) == IF value.t = "str" THEN ParseFloat(value.s) ELSE value.d

----------------------------------------------------------------------------
(* format_coord *)

\* integer, decimal = s.split('.') raises unless there are exactly two parts
SplitParts(s) == Count(s, ".") + 1

IntegerPart(s) == SubSeq(s, 1, IndexOf(s, ".") - 1)

DecimalPart(s) == SubSeq(s, IndexOf(s, ".") + 1, Len(s))

zeros_needed(decimal) == 5 - Len(decimal)

padding(decimal) == Rep("0", zeros_needed(decimal))

\* padding with zeros only, to six digits
zero_padded(decimal) == decimal \o Rep("0", Places - Len(decimal))

new_decimal(decimal) == decimal \o padding(decimal) \o <<"1">>

NoDecimalSuffix == <<".", "0", "0", "0", "0", "0", "1">>

\* the body of the try block: [raised, ret]
format_coord_try(value) ==
    Only({LET Raise   == [raised |-> TRUE, ret |-> NullV]
              Ret(t)  == [raised |-> FALSE, ret |-> StrV(t)]
          IN  IF Count(s, ".") > 0
              THEN IF SplitParts(s) # 2 THEN Raise
                   ELSE LET integer == IntegerPart(s)
                            decimal == DecimalPart(s)
                        IN  IF Len(decimal) > Places
                            THEN IF IsFloatLiteral(s)
                                 THEN Ret(FormatF6(PyRound6(ParseFloat(s))))
                                 ELSE Raise
                            ELSE IF Len(decimal) < Places
                            THEN Ret(integer \o <<".">> \o new_decimal(decimal))
                            ELSE IF IsFloatLiteral(s)
                                 THEN Ret(FormatF6(ParseFloat(s)))
                                 ELSE Raise
              ELSE Ret(s \o NoDecimalSuffix) :
          s \in {PyStr(value)}})

\* a handler that returns nothing
format_coord_swallow(value) == NullV

\* except Exception: return value
format_coord_except(value) == value

format_coord(value) ==
    Only({IF r.raised THEN format_coord_except(value) ELSE r.ret :
          r \in {format_coord_try(value)}})

----------------------------------------------------------------------------
(* WKT text and geometries *)

\* WKT text is its keyword and its coordinate texts, a parsed geometry the same
\* shape with floats: body[p][r][k] is vertex k of ring r of member p, a vertex
\* <<x, y>>.  A point is one member of one ring of one vertex, a multipoint one
\* such member per point, a polygon one member with its exterior ring first.
\* a function on 1..n as the sequence it is
Tup(f) == <<>> \o f

FormattedTypes == {"POINT", "POLYGON", "MULTIPOINT", "MULTIPOLYGON"}

OtherTypes == {"LINESTRING", "GEOMETRYCOLLECTION"}

RingTypes == {"POLYGON", "MULTIPOLYGON"}

\* the coordinates of a body
CoordsOf(body) ==
    UNION {UNION {UNION {{body[p][r][k][1], body[p][r][k][2]} :
                         k \in 1..Len(body[p][r])} :
                  r \in 1..Len(body[p])} :
           p \in 1..Len(body)}

ParsedBody(body) ==
    Tup([p \in 1..Len(body) |->
        Tup([r \in 1..Len(body[p]) |->
            Tup([k \in 1..Len(body[p][r]) |->
                <<ParseFloat(body[p][r][k][1]), ParseFloat(body[p][r][k][2])>>])])])

MinRing == 4

RingsClosed(body) ==
    \A p \in 1..Len(body) : \A r \in 1..Len(body[p]) :
        LET ring == body[p][r]
        IN  Len(ring) >= MinRing /\ ring[1] = ring[Len(ring)]

\* wkt.loads(text)
wkt_loads(text) == [tag |-> text.tag, body |-> ParsedBody(text.body)]

\* wkt.loads raises on text that is no geometry
Parses(text) ==
    /\ text.tag \in FormattedTypes \cup OtherTypes
    /\ \A c \in CoordsOf(text.body) : IsFloatLiteral(c)
    /\ text.tag \in RingTypes => RingsClosed(wkt_loads(text).body)

\* a number as geom.wkt writes it: the shortest digits that read back, without
\* a trailing ".0"
WktNumber(float) ==
    Only({IF x.digits = <<>> THEN SignText(x) \o <<"0">>
          ELSE IF x.decpt > ReprMinDecpt
          THEN SignText(x) \o ToChars(OrZero(IntDigits(x)))
               \o (IF FracDigits(x) = <<>> THEN <<>> ELSE <<".">> \o ToChars(FracDigits(x)))
          ELSE PyRepr(x) :
          x \in {float}})

\* geom.wkt
WrittenBody(body) ==
    Tup([p \in 1..Len(body) |->
        Tup([r \in 1..Len(body[p]) |->
            Tup([k \in 1..Len(body[p][r]) |->
                <<WktNumber(body[p][r][k][1]), WktNumber(body[p][r][k][2])>>])])])

to_wkt(geom) == Only({[tag |-> g.tag, body |-> WrittenBody(g.body)] : g \in {geom}})

----------------------------------------------------------------------------
(* process_coords, process_polygon, process_point, process_wkt *)

\* float(format_coord(c)) of one coordinate, and whether float() raises
FormattedCoord(c) == Only({PyFloat(v) : v \in {format_coord(FloatV(c))}})

CoordRaises(c) == \E v \in {format_coord(FloatV(c))} : ~PyFloatOk(v)

\* formatting every vertex but the last
process_coords_open(coords) ==
    Tup([k \in 1..Len(coords) |->
        IF k = Len(coords) THEN coords[k]
        ELSE <<FormattedCoord(coords[k][1]), FormattedCoord(coords[k][2])>>])

process_coords(coords) ==
    Tup([k \in 1..Len(coords) |->
        <<FormattedCoord(coords[k][1]), FormattedCoord(coords[k][2])>>])

process_polygon(polygon) ==
    Tup([r \in 1..Len(polygon) |-> process_coords(polygon[r])])

process_point(point) == <<FormattedCoord(point[1]), FormattedCoord(point[2])>>

\* the body of the try block: [raised, ret]
process_wkt_try(wkt_string) ==
    IF ~Parses(wkt_string) THEN [raised |-> TRUE, ret |-> wkt_string]
    ELSE Only({
         LET done(b) == [raised |-> FALSE, ret |-> to_wkt([tag |-> geom.tag, body |-> b])]
         IN  IF geom.tag \in FormattedTypes /\ \E c \in CoordsOf(geom.body) : CoordRaises(c)
             THEN [raised |-> TRUE, ret |-> wkt_string]
             ELSE CASE geom.tag = "POLYGON" ->
                         done(<<process_polygon(geom.body[1])>>)
                    [] geom.tag = "MULTIPOLYGON" ->
                         done(Tup([p \in 1..Len(geom.body) |-> process_polygon(geom.body[p])]))
                    [] geom.tag = "POINT" ->
                         done(<<<<<<process_point(geom.body[1][1][1])>>>>>>)
                    [] geom.tag = "MULTIPOINT" ->
                         done(Tup([p \in 1..Len(geom.body) |->
                                      <<<<process_point(geom.body[p][1][1])>>>>]))
                    [] OTHER -> [raised |-> FALSE, ret |-> wkt_string] :
         geom \in {wkt_loads(wkt_string)}})

\* a handler that returns nothing
process_wkt_swallow(wkt_string) == [tag |-> "", body |-> <<>>]

\* except: return wkt_string
process_wkt_except(wkt_string) == wkt_string

process_wkt(wkt_string) ==
    Only({IF r.raised THEN process_wkt_except(w) ELSE r.ret :
          w \in {wkt_string}, r \in {process_wkt_try(wkt_string)}})

\* one call, whatever n is
apply_once(v, k) == process_wkt(v)

\* apply_n_times(process_wkt, value, n)
RECURSIVE apply_n_times(_, _)
apply_n_times(v, k) ==
    IF k <= 0 THEN v ELSE Only({apply_n_times(w, k - 1) : w \in {process_wkt(v)}})

----------------------------------------------------------------------------
(* Inputs of format_coord *)

\* the longest fraction of an input, and the longest text of another kind
MaxFrac == 8

MaxJunk == 3

\* the sequences over S of length at most k
SeqsUpTo(S, k) == {<<>> \o q : q \in UNION {[1..j -> S] : j \in 0..k}}

FracChars == {"0", "5", "9"}

IntTexts == {<<"0">>, <<"1", "2">>}

SignTexts == {<<>>, <<"-">>}

\* [-]I and [-]I.F
IntegerTexts == {sg \o ip : sg \in SignTexts, ip \in IntTexts}

\* the examples of the specification
ExampleTexts ==
    { <<"1", "2", ".", "3">>,
      <<"1", "2", ".", "1", "2", "3", "4", "5", "6", "7">>,
      <<"1", "2", ".", "1", "2", "3", "4", "5", "6">>,
      <<"3">> }

\* decimals that are doubles exactly halfway between two six-digit decimals:
\* 1/128 and 3/128
TieTexts ==
    { <<"0", ".", "0", "0", "7", "8", "1", "2", "5">>,
      <<"0", ".", "0", "2", "3", "4", "3", "7", "5">>,
      <<"-", "0", ".", "0", "2", "3", "4", "3", "7", "5">> }

\* text that is no plain decimal: letters, exponents, several separators, nothing
JunkChars == {"1", ".", "a", "e", "-"}

JunkTexts == SeqsUpTo(JunkChars, MaxJunk)

LongTails == {Rep("5", Places), Rep("5", Places + 1)}

LongJunkTexts == {j \o <<".">> \o t : j \in SeqsUpTo({"1", "a", "."}, 2), t \in LongTails}

FracTexts == SeqsUpTo(FracChars, MaxFrac)

----------------------------------------------------------------------------
(* Inputs of process_wkt *)

MaxWktFrac == 7

MaxHoles == 1

MaxMembers == 2

MaxN == 2

WktXTexts ==
    {ip \o <<".">> \o fr : ip \in {<<"0">>, <<"1", "2">>},
                           fr \in SeqsUpTo({"0", "5"}, MaxWktFrac)}

WktYTexts ==
    { <<"5", ".", "1", "2", "3", "4", "5", "6">>,
      <<"-", "5", ".", "5">>,
      <<"0", ".", "0", "0", "0", "0", "0", "1">>,
      <<"7">>,
      <<"a">> }

Y0 == <<"5", ".", "1", "2", "3", "4", "5", "6">>

Vertices ==
    { <<<<"1", "2", ".", "5", "5", "5", "5", "5", "5">>, Y0>>,
      <<<<"1", "2", ".", "5">>, Y0>>,
      <<<<"1", "2", ".", "5", "5", "5", "5", "5", "5", "5">>, Y0>>,
      <<<<"1", "2", ".", "5", "5", "5", "5", "5", "9", "6">>, Y0>>,
      <<<<"0", ".", "0", "0", "0", "0", "0", "5">>, Y0>> }

V0 == <<<<"3", ".", "2", "5">>, <<"4">>>>

\* the same vertex written with a trailing zero
Rewritten(v) == <<v[1] \o <<"0">>, v[2]>>

Rings ==
    {<<a, b, V0, a>> : a \in Vertices, b \in Vertices}
        \cup {<<a, b, V0, Rewritten(a)>> : a \in Vertices, b \in Vertices}
        \cup {<<a, b, V0, b>> : a \in Vertices, b \in Vertices}

HoleRings ==
    { <<V0, <<<<"3", ".", "5">>, <<"4">>>>, <<<<"3", ".", "5">>, <<"4", ".", "5">>>>, V0>>,
      <<V0, <<<<"3", ".", "5">>, <<"4">>>>, <<<<"3", ".", "5">>, <<"4", ".", "5">>>>>> }

Polygons == {<<ext>> \o hs : ext \in Rings, hs \in SeqsUpTo(HoleRings, MaxHoles)}

MemberPolygons ==
    {<<<<a, a, V0, a>>>> : a \in Vertices} \cup {<<<<V0, V0, V0, V0>>, h>> : h \in HoleRings}

PointTexts ==
    {<<x, Y0>> : x \in WktXTexts}
        \cup {<<x, y>> : x \in {<<"1", "2", ".", "5">>, <<"0", ".", "0", "0", "0", "0", "0", "5">>},
                         y \in WktYTexts}

WktInputs ==
    {[tag |-> "POINT", body |-> <<<<<<v>>>>>>] : v \in PointTexts}
        \cup {[tag |-> "POLYGON", body |-> <<pg>>] : pg \in Polygons}
        \cup {[tag |-> "MULTIPOLYGON", body |-> ms] :
                 ms \in SeqsUpTo(MemberPolygons, MaxMembers) \ {<<>>}}
        \cup {[tag |-> "MULTIPOINT", body |-> Tup([p \in 1..Len(vs) |-> <<<<vs[p]>>>>])] :
                 vs \in SeqsUpTo(Vertices, MaxMembers) \ {<<>>}}
        \cup {[tag |-> "LINESTRING", body |-> <<<<<<a, b>>>>>>] : a \in Vertices, b \in Vertices}
        \cup {[tag |-> "GEOMETRYCOLLECTION", body |-> <<<<<<a>>>>>>] : a \in Vertices}
        \cup {[tag |-> "NOT A GEOMETRY", body |-> <<>>]}

----------------------------------------------------------------------------
(* The uploaded table *)

MaxRows == 1

\* Step 2 and Step 3 of the file processing
lat_lon_cols == <<"plot_longitude", "plot_latitude", "longitute", "latitute", "log", "lat">>

wkt_cols ==
    <<"plot_gps_point", "plot_gps_polygon", "gps_point", "gps_polygon", "plot_wkt",
      "WKT", "wkt", "geometry", "Geometry", "GEOMETRY">>

\* the names the page gives as required column names
DocumentedLatLon ==
    {"long", "lat", "longitude", "latitude", "plot_longitude", "plot_latitude"}

DocumentedWkt ==
    {"gps_point", "gps_polygon", "plot_gps_point", "plot_gps_polygon", "plot_wkt",
     "WKT", "geometry"}

Range(q) == {q[j] : j \in 1..Len(q)}

NumberColumnNames == Range(lat_lon_cols) \cup DocumentedLatLon \cup {"elevation"}

WktColumnNames == Range(wkt_cols) \cup DocumentedWkt \cup {"notes"}

Cell(x) == [null |-> FALSE, x |-> x]

NullCell == [null |-> TRUE, x |-> NullV]

NumberCells ==
    { Cell(IntV(ParseFloat(<<"3">>))),
      Cell(FloatV(ParseFloat(<<"0", ".", "0", "0", "0", "0", "1">>))),
      Cell(StrV(<<"1", "2", ".", "1", "2", "3", "4", "5", "6", "7">>)),
      NullCell }

WktCells ==
    { Cell([tag |-> "POINT",
            body |-> <<<<<<<<<<"1", "2", ".", "5", "5", "5", "5", "5", "9", "6">>, <<"7">>>>>>>>>>]),
      Cell([tag |-> "NOT A GEOMETRY", body |-> <<>>]),
      NullCell }

\* a column of the table
Columns(cells, rows) == {Tup(column) : column \in [1..rows -> cells]}

----------------------------------------------------------------------------
(* State *)

VARIABLES
    pc,          \* where the run is
    value,       \* format_coord: its argument
    result,      \* format_coord: what it returned
    wkt_in,      \* apply_n_times: the value it was called with
    n,           \* apply_n_times: its n
    i,           \* apply_n_times: calls of func made so far
    prev,        \* apply_n_times: the argument of the last call of func
    cur,         \* apply_n_times: value
    Loaded,      \* the table as loaded (Step 1)
    Data         \* the table

vars == <<pc, value, result, wkt_in, n, i, prev, cur, Loaded, Data>>

NoWkt == [tag |-> "", body |-> <<>>]

NoTable == [x \in {} |-> <<>>]

IdleCoord == value = NullV /\ result = NullV

IdleWkt == wkt_in = NoWkt /\ n = 0 /\ i = 0 /\ prev = NoWkt /\ cur = NoWkt

IdleTable == Loaded = NoTable /\ Data = NoTable

\* what the callers pass: text, floats (a parsed column or vertex), integers
InitCoord ==
    /\ pc = "format_coord"
    /\ \/ \E it \in IntegerTexts, fr \in FracTexts :
             \/ value = StrV(it \o <<".">> \o fr)
             \/ value = FloatV(ParseFloat(it \o <<".">> \o fr))
       \/ \E t \in IntegerTexts \cup ExampleTexts \cup TieTexts \cup JunkTexts
                     \cup LongJunkTexts :
             value = StrV(t)
       \/ \E t \in IntegerTexts \cup ExampleTexts \cup TieTexts :
             value = FloatV(ParseFloat(t))
       \/ \E t \in IntegerTexts : value = IntV(ParseFloat(t))
    /\ result = NullV
    /\ IdleWkt /\ IdleTable

CallFormatCoord ==
    /\ pc = "format_coord"
    /\ result' = format_coord(value)
    /\ pc' = "formatted"
    /\ UNCHANGED <<value, wkt_in, n, i, prev, cur, Loaded, Data>>

NextCoord == CallFormatCoord

SpecCoord == InitCoord /\ [][NextCoord]_vars

----------------------------------------------------------------------------
(* format_coord: properties, checked under SpecCoord *)

Formatted == pc = "formatted"

TextIn == Formatted /\ value.t = "str"

\* the text before and after the separator at position k
Before(t, k) == SubSeq(t, 1, k - 1)

After(t, k) == SubSeq(t, k + 1, Len(t))

\* [-]digits, [-]digits.digits
PlainDecimal(t) ==
    \E sg \in SignTexts : \E k \in 0..Len(t) :
        /\ k > Len(sg)
        /\ SubSeq(t, 1, Len(sg)) = sg
        /\ AllDigits(SubSeq(t, Len(sg) + 1, k))
        /\ k < Len(t) => t[k + 1] = "." /\ AllDigits(SubSeq(t, k + 2, Len(t)))

PaddingRule ==
    TextIn /\ Count(value.s, ".") = 1 =>
        \A k \in 1..Len(value.s) :
            value.s[k] = "." /\ Len(After(value.s, k)) < 6 =>
                /\ result = StrV(Before(value.s, k) \o <<".">> \o After(value.s, k)
                                 \o Rep("0", 5 - Len(After(value.s, k))) \o <<"1">>)
                /\ Len(After(result.s, k)) = 6

\* C1, as the page's rule gives it: a text I.F with fewer than six fraction
\* digits comes back as I.F, then 5 - len(F) zeros, then a 1: six fraction digits,
\* I and F untouched; "12.3" comes back as "12.300001".
C1_Padding ==
    /\ PaddingRule
    /\ TextIn /\ value.s = <<"1", "2", ".", "3">> =>
           result = StrV(<<"1", "2", ".", "3", "0", "0", "0", "0", "1">>)

C1_Padded ==
    /\ TextIn
    /\ value.s = <<"1", "2", ".", "3">>
    /\ result = StrV(<<"1", "2", ".", "3", "0", "0", "0", "0", "1">>)

\* C1 as stated: the same rule, with "12.3" coming back as "12.30001".
C1_PaddingAsStated ==
    /\ PaddingRule
    /\ TextIn /\ value.s = <<"1", "2", ".", "3">> =>
           result = StrV(<<"1", "2", ".", "3", "0", "0", "0", "1">>)

DecimalValued(v) == v.t \in {"float", "int"} \/ (v.t = "str" /\ PlainDecimal(v.s))

SixFractionDigits(t) ==
    /\ Count(t, ".") = 1
    /\ Len(After(t, IndexOf(t, "."))) = 6
    /\ AllDigits(After(t, IndexOf(t, ".")))

\* C2: for every decimal-valued input (an integer, a decimal of either sign, as
\* text or as a number) the returned text reads as a float and has exactly six
\* digits after the separator; an input N without separator gives N.000001.
C2_SixDigits ==
    Formatted /\ DecimalValued(value) =>
        /\ result.t = "str"
        /\ IsFloatLiteral(result.s)
        /\ SixFractionDigits(result.s)
        /\ Count(PyStr(value), ".") = 0 => result.s = PyStr(value) \o NoDecimalSuffix

\* |I.F| in millionths, cut off after the sixth digit, and the digits cut off
Millionths(t, k) ==
    ValOf(ToVals(SubSeq(t, IF t[1] = "-" THEN 2 ELSE 1, k - 1))
          \o SubSeq(ToVals(After(t, k)) \o Zeros(6), 1, 6))

CutOff(t, k) == SubSeq(ToVals(After(t, k)), 7, Len(After(t, k)))

\* [-]I.dddddd for m millionths
SixPlaces(neg, m) ==
    (IF neg THEN <<"-">> ELSE <<>>) \o ToChars(NatDigits(m \div 1000000)) \o <<".">>
        \o ToChars(SubSeq(NatDigits(1000000 + (m % 1000000)), 2, 7))

\* the input lies exactly between two six-digit decimals, and the double read
\* from it lies above (1), below (-1) or on (0) it
Halfway(t, k) == CutOff(t, k) = <<5>>

\* C3: a text with more than six fraction digits comes back as the six-digit
\* decimal nearest to its numeric value (the double read from it; a double
\* exactly halfway goes to the even neighbour), one with exactly six digits
\* comes back with the same value; "12.1234567" gives "12.123457" and
\* "12.123456" gives "12.123456".
C3_Rounded ==
    TextIn /\ PlainDecimal(value.s) /\ Count(value.s, ".") = 1 =>
        \A k \in {IndexOf(value.s, ".")} : \A m \in {Millionths(value.s, k)} :
            \A cut \in {CutOff(value.s, k)} : \A neg \in {value.s[1] = "-"} :
                /\ Len(After(value.s, k)) = 6 => result.s = SixPlaces(neg, m)
                /\ Len(After(value.s, k)) > 6 =>
                      /\ result.s \in {SixPlaces(neg, m), SixPlaces(neg, m + 1)}
                      /\ cut[1] < 5 => result.s = SixPlaces(neg, m)
                      /\ cut[1] > 5 \/ (cut[1] = 5 /\ Len(cut) > 1 /\ ValOf(Tail(cut)) > 0)
                            => result.s = SixPlaces(neg, m + 1)
                      /\ Halfway(value.s, k) =>
                            \A d \in {FloatDir(ParseFloat(value.s))} :
                                result.s = SixPlaces(neg, m + 1)
                                    <=> (d = 1 \/ (d = 0 /\ m % 2 = 1))
                /\ value.s = <<"1", "2", ".", "1", "2", "3", "4", "5", "6", "7">> =>
                      result.s = <<"1", "2", ".", "1", "2", "3", "4", "5", "7">>
                /\ value.s = <<"1", "2", ".", "1", "2", "3", "4", "5", "6">> =>
                      result.s = value.s

C3_RoundedUp ==
    /\ TextIn
    /\ value.s = <<"1", "2", ".", "1", "2", "3", "4", "5", "6", "7">>
    /\ result.s = <<"1", "2", ".", "1", "2", "3", "4", "5", "7">>

\* the conversions of format_coord that fail: unpacking more than two parts, and
\* float() of a text that is no float literal (only texts with six or more
\* characters after the separator reach it)
ConversionFails(t) ==
    \/ Count(t, ".") > 1
    \/ Count(t, ".") = 1 /\ Len(After(t, IndexOf(t, "."))) >= 6 /\ ~IsFloatLiteral(t)

\* C4: format_coord returns a value for every input, and when a conversion
\* fails the value returned is the input itself.
C4_Total ==
    Formatted =>
        /\ result # NullV
        /\ ConversionFails(PyStr(value)) => result = value
        /\ ~ConversionFails(PyStr(value)) => result.t = "str"

C4_Fallback ==
    /\ TextIn
    /\ value.s = <<"a", ".", "5", "5", "5", "5", "5", "5">>
    /\ result = value

\* apply_n_times(process_wkt, wkt_in, n), one pass of its loop at a time
InitApply ==
    /\ pc = "apply_n_times"
    /\ wkt_in \in WktInputs
    /\ n \in 0..MaxN
    /\ i = 0
    /\ prev = NoWkt
    /\ cur = wkt_in
    /\ IdleCoord /\ IdleTable

LoopBody ==
    /\ pc = "apply_n_times"
    /\ i < n
    /\ prev' = cur
    /\ cur' = process_wkt(cur)
    /\ i' = i + 1
    /\ UNCHANGED <<pc, value, result, wkt_in, n, Loaded, Data>>

Return ==
    /\ pc = "apply_n_times"
    /\ i = n
    /\ pc' = "returned"
    /\ UNCHANGED <<value, result, wkt_in, n, i, prev, cur, Loaded, Data>>

\* the file processing: Step 1 has loaded the table
InitTable ==
    /\ pc = "loaded"
    /\ \E nc \in NumberColumnNames, wc \in WktColumnNames : \E rows \in 1..MaxRows :
         \E ncol \in Columns(NumberCells, rows), wcol \in Columns(WktCells, rows) :
             Loaded = (nc :> ncol) @@ (wc :> wcol)
    /\ Data = Loaded
    /\ IdleCoord /\ IdleWkt

\* Data[col] = Data[col].apply(lambda x: format_coord(x) if pd.notnull(x) else x),
\* then astype(float), which leaves the column as it is when a cell does not convert
FormattedColumn(column) ==
    LET applied == Tup([j \in 1..Len(column) |->
                        IF column[j].null THEN column[j] ELSE Cell(format_coord(column[j].x))])
    IN  IF \A j \in 1..Len(applied) : applied[j].null \/ PyFloatOk(applied[j].x)
        THEN Tup([j \in 1..Len(applied) |->
                  IF applied[j].null THEN applied[j] ELSE Cell(FloatV(PyFloat(applied[j].x)))])
        ELSE applied

\* Data[col] = Data[col].apply(lambda x: apply_n_times(process_wkt, x, 2) if pd.notnull(x) else x)
Repeats == 2

ReprocessedColumn(column) ==
    Tup([j \in 1..Len(column) |->
         IF column[j].null THEN column[j] ELSE Cell(apply_n_times(column[j].x, Repeats))])

\* for col in cols: if col in Data.columns: Data[col] = ...
ProcessedColumn(step, column) ==
    IF step = "lat_lon" THEN FormattedColumn(column) ELSE ReprocessedColumn(column)

RECURSIVE ForEachColumn(_, _, _, _)
ForEachColumn(table, cols, k, step) ==
    IF k > Len(cols) THEN table
    ELSE ForEachColumn(
             IF cols[k] \in DOMAIN table
             THEN [table EXCEPT ![cols[k]] = ProcessedColumn(step, table[cols[k]])]
             ELSE table,
             cols, k + 1, step)

Step2 ==
    /\ pc = "loaded"
    /\ Data' = ForEachColumn(Data, lat_lon_cols, 1, "lat_lon")
    /\ pc' = "lat_lon_formatted"
    /\ UNCHANGED <<value, result, wkt_in, n, i, prev, cur, Loaded>>

Step3 ==
    /\ pc = "lat_lon_formatted"
    /\ Data' = ForEachColumn(Data, wkt_cols, 1, "wkt")
    /\ pc' = "wkt_formatted"
    /\ UNCHANGED <<value, result, wkt_in, n, i, prev, cur, Loaded>>

Init == InitApply \/ InitTable

Next == LoopBody \/ Return \/ Step2 \/ Step3

Spec == Init /\ [][Next]_vars

----------------------------------------------------------------------------
(* process_wkt, apply_n_times and the pipeline: properties, checked under Spec *)

\* func has been called: cur = process_wkt(prev)
Applied == pc \in {"apply_n_times", "returned"} /\ i >= 1

Supported(w) == Parses(w) /\ w.tag \in FormattedTypes

\* member, ring, vertex and axis of every coordinate
Positions(w) ==
    UNION {UNION {{<<p, r, k, a>> : k \in 1..Len(w.body[p][r]), a \in 1..2} :
                  r \in 1..Len(w.body[p])} :
           p \in 1..Len(w.body)}

At(w, q) == w.body[q[1]][q[2]][q[3]][q[4]]

SameShape(a, b) ==
    /\ a.tag = b.tag
    /\ Len(a.body) = Len(b.body)
    /\ \A p \in 1..Len(a.body) :
          /\ Len(a.body[p]) = Len(b.body[p])
          /\ \A r \in 1..Len(a.body[p]) : Len(a.body[p][r]) = Len(b.body[p][r])

\* equal as numbers: -0.0 = 0.0
NumEq(x, y) == x = y \/ (x.digits = <<>> /\ y.digits = <<>> /\ x.decpt = y.decpt)

\* what format_coord returns for the coordinate at q, given as the parser reads it
FormattedAt(w, q) == format_coord(FloatV(ParseFloat(At(w, q))))

\* C5: process_wkt returns its input text itself when the text is no geometry,
\* when the geometry is no Point, Polygon, MultiPoint or MultiPolygon, and when
\* a step after parsing fails (a formatted coordinate that float() rejects).
C5_Unchanged ==
    Applied =>
        /\ ~Parses(prev) => cur = prev
        /\ Parses(prev) /\ prev.tag \notin FormattedTypes => cur = prev
        /\ Supported(prev)
              /\ (\E q \in Positions(prev) : ~IsFloatLiteral(FormattedAt(prev, q).s))
              => cur = prev

C5_FailedAfterParsing ==
    /\ Applied
    /\ Supported(prev)
    /\ \E q \in Positions(prev) : ~IsFloatLiteral(FormattedAt(prev, q).s)
    /\ cur = prev

\* C6: for every parseable Point, Polygon, MultiPoint or MultiPolygon the output
\* has the same type, members, rings and vertices in the same order, and every
\* output coordinate is the number format_coord gives for the input coordinate.
C6_EveryCoordinateFormatted ==
    Applied /\ Supported(prev) =>
        /\ SameShape(prev, cur)
        /\ \A q \in Positions(prev) : \A f \in {FormattedAt(prev, q)} :
              /\ IsFloatLiteral(f.s)
              /\ NumEq(ParseFloat(At(cur, q)), ParseFloat(f.s))

\* every coordinate written with exactly six fraction digits
SixDecimal(w) ==
    \A q \in Positions(w) : \A t \in {At(w, q)} :
        PlainDecimal(t) /\ Count(t, ".") = 1 /\ Len(After(t, IndexOf(t, "."))) = 6

\* C7: for a supported geometry whose coordinates all have exactly six fraction
\* digits (trailing zeros included), every coordinate after one application and
\* after two equals the input coordinate as a number.
C7_SixDecimalNoOp ==
    Applied /\ Supported(wkt_in) /\ SixDecimal(wkt_in) =>
        /\ SameShape(wkt_in, cur)
        /\ \A q \in Positions(wkt_in) :
              NumEq(ParseFloat(At(cur, q)), ParseFloat(At(wkt_in, q)))

\* the longitude and latitude names of the claim
RecognizedLatLon == DocumentedLatLon \cup {"longitute", "latitute"}

\* C8: after Step 2 every non-null value v of every column with a recognized
\* longitude or latitude name holds format_coord(v), which reads as a float; an
\* integer 3 has become 3.000001.
C8_LatLonFormatted ==
    pc \in {"lat_lon_formatted", "wkt_formatted"} =>
        \A c \in DOMAIN Loaded \cap RecognizedLatLon : \A j \in 1..Len(Loaded[c]) :
            ~Loaded[c][j].null =>
                \A f \in {format_coord(Loaded[c][j].x)} :
                    /\ PyFloatOk(f)
                    /\ ~Data[c][j].null
                    /\ PyFloatOk(Data[c][j].x)
                    /\ NumEq(PyFloat(Data[c][j].x), PyFloat(f))

\* func applied k times, each output fed to the next call
RECURSIVE Composed(_, _)
Composed(w, k) == IF k = 0 THEN w ELSE process_wkt(Composed(w, k - 1))

\* C9: apply_n_times returns the n-fold composition of process_wkt (for n = 0 the
\* value itself, without a call), and after Step 3 every non-null value w of a
\* recognized WKT column holds process_wkt(process_wkt(w)), null values as loaded.
C9_Composition ==
    /\ pc = "returned" => i = n /\ cur = Composed(wkt_in, n)
    /\ pc = "returned" /\ n = 0 => i = 0 /\ cur = wkt_in /\ prev = NoWkt
    /\ pc = "returned" /\ n = 2 => cur = process_wkt(process_wkt(wkt_in))
    /\ pc = "wkt_formatted" =>
          \A c \in DOMAIN Loaded \cap DocumentedWkt : \A j \in 1..Len(Loaded[c]) :
              IF Loaded[c][j].null THEN Data[c][j] = Loaded[c][j]
              ELSE Data[c][j] = Cell(process_wkt(process_wkt(Loaded[c][j].x)))

C9_AppliedTwice ==
    /\ pc = "wkt_formatted"
    /\ \E c \in DOMAIN Loaded \cap DocumentedWkt : \E j \in 1..Len(Loaded[c]) :
          /\ ~Loaded[c][j].null
          /\ Data[c][j].x = process_wkt(process_wkt(Loaded[c][j].x))
          /\ Data[c][j].x # process_wkt(Loaded[c][j].x)

\* the vertices k and l of a ring are equal as numbers
SameVertex(w, p, r, k, l) ==
    /\ NumEq(ParseFloat(w.body[p][r][k][1]), ParseFloat(w.body[p][r][l][1]))
    /\ NumEq(ParseFloat(w.body[p][r][k][2]), ParseFloat(w.body[p][r][l][2]))

=============================================================================
